---- MODULE Spec2Model ----
(***************************************************************************)
(* Audio-reactive snowflake visualizer: the spectrum analyser, the three   *)
(* band beat detectors with their fallback spawn, the particle collection  *)
(* and the gesture freeze of the neon variant (PsychedelicVisualizer) and  *)
(* of the classic variant (Visualizer), with the gesture service           *)
(* (getGestureRecognizer), the webcam startup and the unmounting.          *)
(*                                                                         *)
(* JavaScript numbers are modelled in fixed point: energies and running    *)
(* averages in 1/EnergyScale, thresholds in 1/ThresholdScale, intensities  *)
(* in 1/IntensityScale, particle life in 1/LifeScale, landmark             *)
(* coordinates in 1/CoordScale and pan offsets in 1/CoordScale pixels.     *)
(* Time is Date.now() in milliseconds, counted from an origin StartTime    *)
(* milliseconds before the component is mounted.                           *)
(***************************************************************************)
EXTENDS Integers, Sequences, FiniteSets, TLC

VARIABLES
    variant,              \* "neon" (PsychedelicVisualizer) or "classic" (Visualizer)
    now,                  \* Date.now() read by the last render frame
    dataArray,            \* dataArrayRef.current, refreshed by getByteFrequencyData
    avgBass, avgMid, avgTreble,
    bassThreshold, midThreshold, trebleThreshold,
    lastSpawnTime,
    particles,            \* particlesRef.current, as bursts of equal particles
    isFrozen, targetOffset, cameraOffset,
    lastVideoTime, lastDetectedGesture,
    gestureRecognizerRef, isCameraReady,
    videoTime,            \* video.currentTime
    webcam,               \* where startWebcam stands
    frame,                \* what the last render frame did (its calls and readings)
    frames,               \* render frames run so far
    videoFrames,          \* video frames handed to the recognizer so far
    quietFrames,          \* frames of the silent tail run so far
    service,              \* gestureService.ts: the instance, the promise, the calls made
    callers,              \* other callers of getGestureRecognizer and what they got
    isMounted,            \* the isMounted flag of the webcam effect
    stream,               \* the tracks of the camera stream: "none", "live", "stopped"
    status,               \* the onCameraStatusChange calls made so far
    pending               \* render calls due: requested animation frames not yet run

vars == << variant, now, dataArray, avgBass, avgMid, avgTreble,
           bassThreshold, midThreshold, trebleThreshold, lastSpawnTime,
           particles, isFrozen, targetOffset, cameraOffset, lastVideoTime,
           lastDetectedGesture, gestureRecognizerRef, isCameraReady,
           videoTime, webcam, frame, frames, videoFrames, quietFrames,
           service, callers, isMounted, stream, status, pending >>

\* What the render loop reads and writes.
loop == << now, dataArray, avgBass, avgMid, avgTreble, bassThreshold, midThreshold,
           trebleThreshold, lastSpawnTime, particles, isFrozen, targetOffset,
           cameraOffset, lastVideoTime, lastDetectedGesture, videoTime, frame,
           frames, videoFrames, quietFrames >>

-----------------------------------------------------------------------------
(* Number representation *)

EnergyScale == 100
ThresholdScale == 10000
IntensityScale == 10000
LifeScale == 100000
CoordScale == 1000
RateScale == 100

(* Program constants (src/utils/audioUtils.ts, constants section) *)

BEAT_THRESHOLD_INIT == 13500
BEAT_DECAY_RATE == 98
FADE_SPEED_BASE == 800
FADE_SPEED_VAR == 500

(* Literals of the render functions *)

BassFloor == 25
MidFloor == 20
TrebleFloor == 15
FallbackMs == 600
FallbackEnergy == 10
FallbackIntensity == 4000
NeonCap == 2000
ClassicCap == 4000
MaxByte == 255

Bands == {"bass", "mid", "treble"}

Min(a, b) == IF a < b THEN a ELSE b
Max(a, b) == IF a > b THEN a ELSE b

-----------------------------------------------------------------------------
(* analyzeAudio *)

\* Mutant of BassEnd: the bass band takes the bottom 5% of the bins.
BassEndFivePercent(length) == (length * 5) \div 100

BassEnd(length) == (length * 6) \div 100
MidEnd(length) == (length * 40) \div 100

\* Mutant of BandOf: the band ends are taken inclusively.
BandOfInclusive(i, length) ==
    IF i <= BassEnd(length) THEN "bass"
    ELSE IF i <= MidEnd(length) THEN "mid"
    ELSE "treble"

\* The branch of the loop body that bin i takes.
BandOf(i, length) ==
    IF i < BassEnd(length) THEN "bass"
    ELSE IF i < MidEnd(length) THEN "mid"
    ELSE "treble"

\* What the loop of analyzeAudio adds to the accumulator of `band` ("total"
\* for totalEnergy) over the bins lo .. hi-1 (bin i is data[i + 1]). The bins
\* are bytes and their sums exact, so the sum is taken by halves.
RECURSIVE LoopSum(_, _, _, _)
LoopSum(data, band, lo, hi) ==
    IF hi <= lo THEN 0
    ELSE IF hi = lo + 1
         THEN (IF band = "total" \/ band = BandOf(lo, Len(data)) THEN data[lo + 1] ELSE 0)
    ELSE LET half == (lo + hi) \div 2
         IN  LoopSum(data, band, lo, half) + LoopSum(data, band, half, hi)

Accumulate(data) ==
    [total |-> LoopSum(data, "total", 0, Len(data)),
     bass |-> LoopSum(data, "bass", 0, Len(data)),
     mid |-> LoopSum(data, "mid", 0, Len(data)),
     treble |-> LoopSum(data, "treble", 0, Len(data))]

\* x || 1
OrOne(x) == IF x = 0 THEN 1 ELSE x

Mean(sum, n) == (sum * EnergyScale) \div n

analyzeAudio(data) ==
    LET length == Len(data)
        acc == Accumulate(data)
    IN  [ energy |-> Mean(acc.total, length),
          bassEnergy |-> Mean(acc.bass, OrOne(BassEnd(length))),
          midEnergy |-> Mean(acc.mid, OrOne(MidEnd(length) - BassEnd(length))),
          trebleEnergy |-> Mean(acc.treble, OrOne(length - MidEnd(length))) ]

\* Mutant of ZeroAnalysis: a frame without audio keeps a full energy.
FullAnalysis ==
    [energy |-> MaxByte * EnergyScale, bassEnergy |-> 0, midEnergy |-> 0,
     trebleEnergy |-> 0]

\* let energy = 0 with the analysis skipped: no band is read
ZeroAnalysis == [energy |-> 0, bassEnergy |-> 0, midEnergy |-> 0, trebleEnergy |-> 0]

-----------------------------------------------------------------------------
(* The beat detector of render *)

\* Mutant of Onset: the absolute floor is forgotten.
OnsetNoFloor(energy, average, threshold, floor) ==
    energy * ThresholdScale > average * threshold

\* bandEnergy > runningAverage * threshold && bandEnergy > floor
Onset(energy, average, threshold, floor) ==
    /\ energy * ThresholdScale > average * threshold
    /\ energy > floor * EnergyScale

\* Math.min(bandEnergy / 255, 1)
Intensity(energy) ==
    Min((energy * IntensityScale) \div (MaxByte * EnergyScale), IntensityScale)

\* Mutant of BoostedThreshold: the boost multiplies the current threshold.
BoostedThresholdCompound(band) ==
    IF band = "treble" THEN (trebleThreshold * 14) \div 10
    ELSE IF band = "mid" THEN (midThreshold * 15) \div 10
    ELSE (bassThreshold * 15) \div 10

\* Mutant of BoostedThreshold: the threshold is multiplied by 1.05.
BoostedThresholdSmall(band) == (BEAT_THRESHOLD_INIT * 105) \div 100

\* BEAT_THRESHOLD_INIT * 1.5 (bass, mid), BEAT_THRESHOLD_INIT * 1.4 (treble)
BoostedThreshold(band) ==
    IF band = "treble" THEN (BEAT_THRESHOLD_INIT * 14) \div 10
    ELSE (BEAT_THRESHOLD_INIT * 15) \div 10

\* Mutant of DecayedThreshold: the clamp at the initial value is forgotten.
DecayedThresholdNoClamp(threshold) == (threshold * BEAT_DECAY_RATE) \div RateScale

\* Math.max(BEAT_THRESHOLD_INIT, threshold * BEAT_DECAY_RATE)
DecayedThreshold(threshold) ==
    Max(BEAT_THRESHOLD_INIT, (threshold * BEAT_DECAY_RATE) \div RateScale)

\* Mutant of RunningAverage: the new energy weighs a fifth.
RunningAverageFast(average, energy) == (average * 80 + energy * 20) \div 100

\* average * 0.92 + bandEnergy * 0.08
RunningAverage(average, energy) == (average * 92 + energy * 8) \div 100

BassFires(a) == Onset(a.bassEnergy, avgBass, bassThreshold, BassFloor)
\* Mutant of MidFires: the spawned flag is not consulted.
MidFiresNoPriority(a) == Onset(a.midEnergy, avgMid, midThreshold, MidFloor)

MidFires(a) == ~BassFires(a) /\ Onset(a.midEnergy, avgMid, midThreshold, MidFloor)
TrebleFires(a) ==
    /\ ~BassFires(a)
    /\ ~MidFires(a)
    /\ Onset(a.trebleEnergy, avgTreble, trebleThreshold, TrebleFloor)

Spawned(a) == BassFires(a) \/ MidFires(a) \/ TrebleFires(a)

\* Mutants of FallbackDue: the energy test is forgotten; the time test is
\* `>=`; the time test is forgotten; the time test waits twice as long.
FallbackDueNoEnergy(a, timeSinceLast) ==
    ~Spawned(a) /\ timeSinceLast > FallbackMs

FallbackDueAtLeast(a, timeSinceLast) ==
    /\ ~Spawned(a)
    /\ timeSinceLast >= FallbackMs
    /\ a.energy > FallbackEnergy * EnergyScale

FallbackDueNoTimer(a, timeSinceLast) ==
    ~Spawned(a) /\ a.energy > FallbackEnergy * EnergyScale

FallbackDueSlow(a, timeSinceLast) ==
    /\ ~Spawned(a)
    /\ timeSinceLast > 2 * FallbackMs
    /\ a.energy > FallbackEnergy * EnergyScale

\* !spawned && timeSinceLast > 600 && energy > 10
FallbackDue(a, timeSinceLast) ==
    /\ ~Spawned(a)
    /\ timeSinceLast > FallbackMs
    /\ a.energy > FallbackEnergy * EnergyScale

\* Mutant of FallbackBand: bass is compared with mid alone.
FallbackBandBassFirst(a) ==
    IF a.bassEnergy > a.midEnergy THEN "bass"
    ELSE IF a.midEnergy > a.trebleEnergy THEN "mid"
    ELSE "treble"

\* The band of the fallback spawn
FallbackBand(a) ==
    IF a.bassEnergy > a.midEnergy /\ a.bassEnergy > a.trebleEnergy THEN "bass"
    ELSE IF a.midEnergy > a.trebleEnergy THEN "mid"
    ELSE "treble"

\* The spawn calls one unfrozen, analysed frame issues, in order.
SpawnCalls(a, timeSinceLast) ==
    (IF BassFires(a)
     THEN << [type |-> "bass", intensity |-> Intensity(a.bassEnergy), fallback |-> FALSE] >>
     ELSE << >>)
    \o
    (IF MidFires(a)
     THEN << [type |-> "mid", intensity |-> Intensity(a.midEnergy), fallback |-> FALSE] >>
     ELSE << >>)
    \o
    (IF TrebleFires(a)
     THEN << [type |-> "treble", intensity |-> Intensity(a.trebleEnergy), fallback |-> FALSE] >>
     ELSE << >>)
    \o
    (IF FallbackDue(a, timeSinceLast)
     THEN << [type |-> FallbackBand(a), intensity |-> FallbackIntensity, fallback |-> TRUE] >>
     ELSE << >>)

-----------------------------------------------------------------------------
(* The particle collection *)

RECURSIVE Count(_)
Count(ps) == IF ps = << >> THEN 0 ELSE Head(ps).n + Count(Tail(ps))

\* A burst of n particles pushed by one spawn call: life 1.0 and
\* decayRate FADE_SPEED_BASE + Math.random() * FADE_SPEED_VAR; steps counts
\* the physics updates (position, velocity, angle, life) applied to them.
Burst(n, random) ==
    [n |-> n, life |-> LifeScale,
     decayRate |-> FADE_SPEED_BASE + (random * FADE_SPEED_VAR) \div RateScale,
     steps |-> 0]

\* spawnNeonSnowflake: dropped whole above the cap, else every point that the
\* random thinning (skipRatio) keeps is pushed; burst.n is their number.
NeonDropped(ps) == Count(ps) > NeonCap

spawnNeonSnowflake(ps, burst) ==
    IF NeonDropped(ps) \/ burst.n = 0 THEN ps
    ELSE Append(ps, Burst(burst.n, burst.random))

\* addParticle, once per point of spawnSnowflake: pushes while length <= 4000.
ClassicAdded(ps, n) == Min(n, Max(0, ClassicCap + 1 - Count(ps)))

spawnSnowflake(ps, burst) ==
    IF ClassicAdded(ps, burst.n) = 0 THEN ps
    ELSE Append(ps, Burst(ClassicAdded(ps, burst.n), burst.random))

\* Rib positions in 1 / RibScale, Math.random() in 1 / RandomScale, rib
\* lengths in 1 / LengthScale.
RibScale == 3000
RandomScale == 100
LengthScale == RibScale * 100 * RandomScale

\* Math.floor(Math.random() * 4) + 2
NumRibs(random) == (random * 4) \div RandomScale + 2

\* Mutant of RibPos: the ribs are spread up to the far end.
RibPosToEnd(r, numRibs) ==
    (2 * RibScale) \div 10 + r * (((6 * RibScale) \div 10) \div (numRibs - 1))

\* 0.2 + (r / numRibs) * 0.6
RibPos(r, numRibs) ==
    (2 * RibScale) \div 10 + r * (((6 * RibScale) \div 10) \div numRibs)

\* (1 - pos) * 0.6, in 1 / RibScale
RibMaxLen(pos) == ((RibScale - pos) * 6) \div 10

\* maxLen * (0.4 + Math.random() * 0.6)
RibLength(pos, random) == RibMaxLen(pos) * (40 * RandomScale + 60 * random)

\* len > 0.3 ? Math.floor(Math.random() * 3) : 0
SubRibs(length, random) ==
    IF 10 * length > 3 * LengthScale THEN (random * 3) \div RandomScale ELSE 0

\* The ribs of a blueprint: randoms.ribs is Math.random() of numRibs,
\* randoms.length[r] and randoms.subRibs[r] those of the rib r.
Ribs(randoms) ==
    LET numRibs == NumRibs(randoms.ribs)
    IN  [i \in 1..numRibs |->
           LET pos == RibPos(i - 1, numRibs)
               length == RibLength(pos, randoms.length[i])
           IN  [pos |-> pos, length |-> length,
                subRibs |-> SubRibs(length, randoms.subRibs[i])]]

\* Mutant of DynamicDecay: a zero-energy frame decays nothing.
DynamicDecayEnergyOnly(decayRate, energy) ==
    IF energy > 0
    THEN decayRate + (energy * FADE_SPEED_VAR) \div (MaxByte * EnergyScale)
    ELSE 0

\* decayRate + (energy / 255) * FADE_SPEED_VAR when energy > 0, else decayRate
DynamicDecay(decayRate, energy) ==
    IF energy > 0
    THEN decayRate + (energy * FADE_SPEED_VAR) \div (MaxByte * EnergyScale)
    ELSE decayRate

Alive(p) == p.life > 0

\* Mutant of Physics: the freeze flag is not consulted.
PhysicsAlways(ps, energy, frozen) ==
    SelectSeq([i \in 1..Len(ps) |->
                 [ps[i] EXCEPT !.life = @ - DynamicDecay(ps[i].decayRate, energy),
                               !.steps = @ + 1]],
              Alive)

\* particlesRef.current.splice(i, 1)
Splice(ps, i) == SubSeq(ps, 1, i - 1) \o SubSeq(ps, i + 1, Len(ps))

\* The body of the particle loop for the index i: life -= dynamicDecay
\* unless frozen, then the particle is drawn, or spliced out if its life is
\* not above 0.
LoopBody(ps, i, energy, frozen) ==
    LET p == IF frozen THEN ps[i]
             ELSE [ps[i] EXCEPT !.life = @ - DynamicDecay(ps[i].decayRate, energy),
                                !.steps = @ + 1]
    IN  IF Alive(p) THEN [ps EXCEPT ![i] = p] ELSE Splice(ps, i)

\* for (let i = length - 1; i >= 0; i--), from the index i down
RECURSIVE LoopDown(_, _, _, _)
LoopDown(ps, i, energy, frozen) ==
    IF i < 1 THEN ps
    ELSE LoopDown(LoopBody(ps, i, energy, frozen), i - 1, energy, frozen)

\* A loop that counts upwards instead, from the index i.
RECURSIVE LoopUp(_, _, _, _)
LoopUp(ps, i, energy, frozen) ==
    IF i > Len(ps) THEN ps
    ELSE LoopUp(LoopBody(ps, i, energy, frozen), i + 1, energy, frozen)

\* Mutant of Physics: the loop runs forwards over the collection.
PhysicsForwards(ps, energy, frozen) == LoopUp(ps, 1, energy, frozen)

\* The particle loop of render, in reverse index order.
Physics(ps, energy, frozen) == LoopDown(ps, Len(ps), energy, frozen)

-----------------------------------------------------------------------------
(* detectGestures (neon variant) *)

\* A video input of one render frame: advance is 1 when the camera has
\* delivered a new video frame (video.currentTime moved on), outcome is what
\* recognizeForVideo does ("result", "throws") or that the gesture-change
\* callback throws when called ("callback throws"), gesture is the top
\* category ("" for an empty gesture list), landmarks the number of landmarks
\* of the first hand and x, y the coordinates of landmark 9.
VideoInput(advance, outcome, gesture, landmarks, x, y) ==
    [advance |-> advance, outcome |-> outcome, gesture |-> gesture,
     landmarks |-> landmarks, x |-> x, y |-> y]

\* recognized, compared and callback report what the call did: whether it
\* ran the recognizer, whether it reached the comparison of the label, and
\* the label the callback was called with ("" for no call).
GestureState ==
    [isFrozen |-> isFrozen, targetOffset |-> targetOffset,
     lastVideoTime |-> lastVideoTime, lastDetectedGesture |-> lastDetectedGesture,
     recognized |-> FALSE, compared |-> FALSE, callback |-> ""]

\* Mutant of GestureGate: the camera is not waited for.
GestureGateRecognizerOnly == gestureRecognizerRef

\* !gestureRecognizerRef.current || !videoRef.current || !isCameraReadyRef.current
GestureGate == gestureRecognizerRef /\ isCameraReady

\* Mutant of Recognizes: the timestamp is not compared.
RecognizesAnyTime(v) == GestureGate

\* neither early return of detectGestures is taken
Recognizes(v) == GestureGate /\ videoTime + v.advance # lastVideoTime

\* Mutant of PanOffset: the factor 2 is forgotten.
PanOffsetHalf(h) == ((CoordScale \div 2) - h) * 300

\* (0.5 - h) * maxOffset * 2, with maxOffset = 300
PanOffset(h) == ((CoordScale \div 2) - h) * 300 * 2

\* Mutant of LabelChanged: the callback is level-triggered.
LabelAlways(gesture, last) == TRUE

\* gesture !== lastDetectedGestureRef.current
LabelChanged(gesture, last) == gesture # last

\* Mutant of ReleasedOffset: releasing the freeze keeps the target.
ReleasedOffsetKept(target) == target

\* targetOffsetRef.current = { x: 0, y: 0 } in both else branches
ReleasedOffset(target) == [x |-> 0, y |-> 0]

detectGestures(v) ==
    LET g == GestureState
        seen == [g EXCEPT !.lastVideoTime = videoTime + v.advance, !.recognized = TRUE]
        label == IF v.gesture = "" THEN "None" ELSE v.gesture
        \* the assignments made before the label is compared
        set == IF v.gesture = "Open_Palm"
               THEN [seen EXCEPT !.isFrozen = TRUE,
                                 !.targetOffset =
                                     IF v.landmarks > 0
                                     THEN [x |-> PanOffset(v.x), y |-> PanOffset(v.y)]
                                     ELSE @]
               ELSE [seen EXCEPT !.isFrozen = FALSE, !.targetOffset = ReleasedOffset(@)]
    IN  IF ~Recognizes(v) THEN g
        ELSE IF v.outcome = "throws" THEN seen
        \* landmarks[9] is undefined on a hand of fewer than 10 landmarks:
        \* reading its x throws after isFrozen was set
        ELSE IF v.gesture = "Open_Palm" /\ v.landmarks > 0 /\ v.landmarks < 10
             THEN [seen EXCEPT !.isFrozen = TRUE]
        ELSE IF LabelChanged(label, lastDetectedGesture)
             THEN [set EXCEPT !.lastDetectedGesture = label, !.callback = label,
                              !.compared = TRUE]
        ELSE [set EXCEPT !.compared = TRUE]

\* Mutant of Smooth: the offset jumps to the target.
SmoothAtOnce(offset, target) == target

\* offset += (target - offset) * 0.1
Smooth(offset, target) ==
    LET d == target - offset
    IN  offset + (IF d >= 0 THEN d \div 10 ELSE -((-d) \div 10))

-----------------------------------------------------------------------------
(* render *)

\* The spawn function of the variant, applied once per call of the frame.
RECURSIVE ApplySpawns(_, _, _)
ApplySpawns(ps, calls, burst) ==
    IF calls = << >> THEN ps
    ELSE ApplySpawns(IF variant = "neon" THEN spawnNeonSnowflake(ps, burst)
                     ELSE spawnSnowflake(ps, burst),
                     Tail(calls), burst)

\* lastSpawnTimeRef.current = Date.now(): first statement of spawnSnowflake,
\* behind the cap check in spawnNeonSnowflake.
SpawnStamps(ps, calls) ==
    calls # << >> /\ (variant = "classic" \/ ~NeonDropped(ps))

\* Some bin of the spectrum is not zero.
Loud(spectrum) == \E i \in 1..Len(spectrum) : spectrum[i] # 0

\* The frame's calls hold a fallback spawn.
Fallbacks(calls) == \E i \in 1..Len(calls) : calls[i].fallback

\* Mutant of Evaluates: the freeze flag is not consulted.
EvaluatesAlways(audioReady, frozen) == audioReady

\* The detectors run: the audio graph is ready and !isFrozenRef.current.
Evaluates(audioReady, frozen) == audioReady /\ ~frozen

\* One call of render: spectrum is what getByteFrequencyData writes,
\* audioReady the guard on analyser, playing and context state, dt the time
\* since the previous frame, burst the random outcome of a spawn call (the
\* number of points kept and the decay draw), v the video input.
\* Mutant of Reschedule: the frame requests no next frame.
RescheduleNever(due) == due

\* animationIdRef.current = requestAnimationFrame(render)
Reschedule(due) == due + 1

\* Mutant of Averages: the running averages follow every analysed frame,
\* frozen or not.
AveragesWhenAnalysed(audioReady, frozen) == audioReady

\* The running averages are updated at the end of the block guarded by the
\* freeze flag, inside the block guarded by the audio graph.
Averages(audioReady, frozen) == Evaluates(audioReady, frozen)

RenderFrame(spectrum, audioReady, dt, burst, v) ==
    /\ pending > 0
    /\ \E a \in {IF audioReady THEN analyzeAudio(spectrum) ELSE ZeroAnalysis},
          g \in {IF variant = "neon" THEN detectGestures(v) ELSE GestureState} :
       LET t == now + dt
           frozen == variant = "neon" /\ g.isFrozen
           evaluated == Evaluates(audioReady, frozen)
           averaged == Averages(audioReady, frozen)
           timeSinceLast == t - lastSpawnTime
           calls == IF evaluated THEN SpawnCalls(a, timeSinceLast) ELSE << >>
           spawnedPs == ApplySpawns(particles, calls, burst)
       IN  /\ now' = t
           /\ dataArray' = IF audioReady THEN spectrum ELSE dataArray
           /\ isFrozen' = g.isFrozen
           /\ targetOffset' = g.targetOffset
           /\ lastVideoTime' = g.lastVideoTime
           /\ lastDetectedGesture' = g.lastDetectedGesture
           /\ videoTime' = IF variant = "neon" THEN videoTime + v.advance ELSE videoTime
           /\ videoFrames' = IF g.recognized THEN videoFrames + 1 ELSE videoFrames
           /\ cameraOffset' =
                 IF variant = "neon"
                 THEN [x |-> Smooth(cameraOffset.x, g.targetOffset.x),
                       y |-> Smooth(cameraOffset.y, g.targetOffset.y)]
                 ELSE cameraOffset
           /\ bassThreshold' =
                 IF ~evaluated THEN bassThreshold
                 ELSE IF BassFires(a) THEN BoostedThreshold("bass")
                 ELSE DecayedThreshold(bassThreshold)
           /\ midThreshold' =
                 IF ~evaluated THEN midThreshold
                 ELSE IF MidFires(a) THEN BoostedThreshold("mid")
                 ELSE DecayedThreshold(midThreshold)
           /\ trebleThreshold' =
                 IF ~evaluated THEN trebleThreshold
                 ELSE IF TrebleFires(a) THEN BoostedThreshold("treble")
                 ELSE DecayedThreshold(trebleThreshold)
           /\ lastSpawnTime' = IF SpawnStamps(particles, calls) THEN t ELSE lastSpawnTime
           /\ avgBass' = IF averaged THEN RunningAverage(avgBass, a.bassEnergy) ELSE avgBass
           /\ avgMid' = IF averaged THEN RunningAverage(avgMid, a.midEnergy) ELSE avgMid
           /\ avgTreble' =
                 IF averaged THEN RunningAverage(avgTreble, a.trebleEnergy) ELSE avgTreble
           /\ particles' = Physics(spawnedPs, a.energy, frozen)
           /\ frame' = [analysed |-> audioReady, analysis |-> a, frozen |-> frozen,
                        timeSinceLast |-> timeSinceLast, calls |-> calls,
                        before |-> Count(particles), spawned |-> Count(spawnedPs),
                        points |-> IF calls = << >> THEN 0 ELSE burst.n,
                        video |-> v,
                        drawn |-> Count(Physics(spawnedPs, a.energy, frozen)),
                        recognized |-> g.recognized, callback |-> g.callback,
                        blueprint |-> frame.blueprint,
                        entering |-> spawnedPs,
                        timestamps |-> IF g.recognized
                                       THEN frame.timestamps \cup {videoTime + v.advance}
                                       ELSE frame.timestamps,
                        compared |-> g.compared,
                        label |-> IF ~g.compared THEN frame.label
                                  ELSE IF v.gesture = "" THEN "None" ELSE v.gesture,
                        heard |-> frame.heard \/ (audioReady /\ Loud(spectrum)),
                        lastFallback |-> IF Fallbacks(calls) THEN t ELSE frame.lastFallback,
                        lastKept |-> IF Fallbacks(calls) /\ SpawnStamps(particles, calls)
                                     THEN t ELSE frame.lastKept]
           /\ frames' = frames + 1
           /\ pending' = Reschedule(pending - 1)
           /\ UNCHANGED << variant, gestureRecognizerRef, isCameraReady, webcam,
                           service, callers, isMounted, stream, status >>

-----------------------------------------------------------------------------
(* getGestureRecognizer (gestureService.ts) *)

\* The module-level state before any call: no instance (0), no promise.
NoService == [instance |-> 0, promise |-> "none", creates |-> 0, starts |-> 0]

\* Mutant of getGestureRecognizer: the promise guard is forgotten, every
\* call without an instance starts an initialisation.
getGestureRecognizerUnguarded(s) ==
    IF s.instance # 0 THEN [service |-> s, returns |-> "instance"]
    ELSE [service |-> [s EXCEPT !.promise = "vision", !.starts = @ + 1],
          returns |-> "promise"]

\* Mutant of getGestureRecognizer: a rejected promise is discarded and the
\* initialisation started again.
getGestureRecognizerRetrying(s) ==
    IF s.instance # 0 THEN [service |-> s, returns |-> "instance"]
    ELSE IF s.promise \in {"none", "rejected"}
         THEN [service |-> [s EXCEPT !.promise = "vision", !.starts = @ + 1],
               returns |-> "promise"]
    ELSE [service |-> s, returns |-> "promise"]

\* One call: the instance if there is one, else the initialisation promise,
\* created (and the initialisation started) if there is none yet.
getGestureRecognizer(s) ==
    IF s.instance # 0 THEN [service |-> s, returns |-> "instance"]
    ELSE IF s.promise = "none"
         THEN [service |-> [s EXCEPT !.promise = "vision", !.starts = @ + 1],
               returns |-> "promise"]
    ELSE [service |-> s, returns |-> "promise"]

\* await FilesetResolver.forVisionTasks() resolves: createFromOptions is called
VisionResolved ==
    /\ service.promise = "vision"
    /\ service' = [service EXCEPT !.promise = "creating", !.creates = @ + 1]
    /\ UNCHANGED << variant, loop, gestureRecognizerRef, isCameraReady, webcam,
                    callers, isMounted, stream, status, pending >>

\* await createFromOptions() resolves: the instance is stored and the
\* promise resolves with it
CreateResolved ==
    /\ service.promise = "creating"
    /\ service' = [service EXCEPT !.promise = "resolved", !.instance = service.creates]
    /\ UNCHANGED << variant, loop, gestureRecognizerRef, isCameraReady, webcam,
                    callers, isMounted, stream, status, pending >>

\* forVisionTasks or createFromOptions rejects: the promise rejects and stays
InitializationRejected ==
    /\ service.promise \in {"vision", "creating"}
    /\ service' = [service EXCEPT !.promise = "rejected"]
    /\ UNCHANGED << variant, loop, gestureRecognizerRef, isCameraReady, webcam,
                    callers, isMounted, stream, status, pending >>

\* Another caller (c) calls getGestureRecognizer and awaits what it returns.
CallerCalls(c) ==
    /\ callers[c].state = "idle"
    /\ \E call \in {getGestureRecognizer(service)} :
          /\ service' = call.service
          /\ callers' = [callers EXCEPT ![c] =
                            IF call.returns = "instance"
                            THEN [state |-> "resolved", got |-> service.instance,
                                  via |-> "instance", found |-> service.promise]
                            ELSE [state |-> "waiting", got |-> 0, via |-> "promise",
                                  found |-> service.promise]]
    /\ UNCHANGED << variant, loop, gestureRecognizerRef, isCameraReady, webcam,
                    isMounted, stream, status, pending >>

\* The promise awaited by the caller c has settled.
CallerSettled(c) ==
    /\ callers[c].state = "waiting"
    /\ service.promise \in {"resolved", "rejected"}
    /\ callers' = [callers EXCEPT ![c] =
                      IF service.promise = "resolved"
                      THEN [callers[c] EXCEPT !.state = "resolved",
                                              !.got = service.instance]
                      ELSE [callers[c] EXCEPT !.state = "rejected"]]
    /\ UNCHANGED << variant, loop, gestureRecognizerRef, isCameraReady, webcam,
                    service, isMounted, stream, status, pending >>

\* The initialisation started by startWebcam goes on.
ServiceStep == VisionResolved \/ CreateResolved

-----------------------------------------------------------------------------
(* startWebcam and the cleanup of the effects (neon variant) *)

\* onCameraStatusChange(ready, text)
StatusChange(ready, text) == [ready |-> ready, text |-> text]

\* Mutant of CatchError: the error is swallowed.
CatchErrorSilent(mounted, calls) == calls

\* catch (error): if (isMounted && onCameraStatusChange) onCameraStatusChange(...)
CatchError(mounted, calls) ==
    IF mounted THEN Append(calls, StatusChange(FALSE, "Camera Error")) ELSE calls

\* await getGestureRecognizer() resolves: the recognizer is stored, unless
\* the component is unmounted
RecognizerResolved ==
    /\ variant = "neon" /\ webcam = "loading"
    /\ service.promise = "resolved"
    /\ gestureRecognizerRef' = isMounted
    /\ status' = IF isMounted
                 THEN Append(status, StatusChange(FALSE, "Starting Camera..."))
                 ELSE status
    /\ webcam' = IF isMounted THEN "starting" ELSE "closed"
    /\ UNCHANGED << variant, loop, isCameraReady, service, callers, isMounted,
                    stream, pending >>

\* await getGestureRecognizer() rejects: the catch block reports it
RecognizerRejected ==
    /\ variant = "neon" /\ webcam = "loading"
    /\ service.promise = "rejected"
    /\ status' = CatchError(isMounted, status)
    /\ webcam' = IF isMounted THEN "failed" ELSE "closed"
    /\ UNCHANGED << variant, loop, gestureRecognizerRef, isCameraReady, service,
                    callers, isMounted, stream, pending >>

\* await getUserMedia() resolves: the stream is attached to the video
\* element, or its tracks are stopped if the component is unmounted
StreamResolved ==
    /\ variant = "neon" /\ webcam = "starting"
    /\ stream' = IF isMounted THEN "live" ELSE "stopped"
    /\ webcam' = IF isMounted THEN "attached" ELSE "closed"
    /\ UNCHANGED << variant, loop, gestureRecognizerRef, isCameraReady, service,
                    callers, isMounted, status, pending >>

\* await getUserMedia() rejects: the catch block reports it
StreamRejected ==
    /\ variant = "neon" /\ webcam = "starting"
    /\ status' = CatchError(isMounted, status)
    /\ webcam' = IF isMounted THEN "failed" ELSE "closed"
    /\ UNCHANGED << variant, loop, gestureRecognizerRef, isCameraReady, service,
                    callers, isMounted, stream, pending >>

\* video.onloadeddata
LoadedData ==
    /\ variant = "neon" /\ webcam = "attached"
    /\ isCameraReady' = (isCameraReady \/ isMounted)
    /\ status' = IF isMounted THEN Append(status, StatusChange(TRUE, "Ready"))
                 ELSE status
    /\ webcam' = IF isMounted THEN "ready" ELSE "closed"
    /\ UNCHANGED << variant, loop, gestureRecognizerRef, service, callers,
                    isMounted, stream, pending >>

\* Mutant of StopTracks: the cleanup leaves the tracks running.
StopTracksNever(tracks) == tracks

\* if (stream) stream.getTracks().forEach(track => track.stop())
StopTracks(tracks) == IF tracks = "live" THEN "stopped" ELSE tracks

\* The component unmounts: the cleanups of the webcam effect and of the
\* animation effect run. The first render call of the animation effect is
\* made when the component mounts, before any cleanup.
Teardown ==
    /\ isMounted /\ frames > 0
    /\ isMounted' = FALSE
    /\ stream' = StopTracks(stream)
    /\ gestureRecognizerRef' = FALSE
    /\ pending' = 0
    /\ UNCHANGED << variant, loop, isCameraReady, webcam, service, callers, status >>

-----------------------------------------------------------------------------
(* Initial state: the refs as useRef creates them *)

StartTime == 1000
NumBins == 20
NumCallers == 2

NoFrame ==
    [analysed |-> FALSE, analysis |-> ZeroAnalysis, frozen |-> FALSE,
     timeSinceLast |-> 0, calls |-> << >>, before |-> 0, spawned |-> 0, points |-> 0,
     video |-> VideoInput(0, "result", "", 0, 0, 0), drawn |-> 0,
     recognized |-> FALSE, callback |-> "", compared |-> FALSE, label |-> "None",
     blueprint |-> << >>, entering |-> << >>, timestamps |-> {},
     heard |-> FALSE, lastFallback |-> -1, lastKept |-> -1]

\* The refs other than the frequency buffer.
InitRefs ==
    /\ variant \in {"neon", "classic"}
    /\ now = StartTime
    /\ avgBass = 0 /\ avgMid = 0 /\ avgTreble = 0
    /\ bassThreshold = BEAT_THRESHOLD_INIT
    /\ midThreshold = BEAT_THRESHOLD_INIT
    /\ trebleThreshold = BEAT_THRESHOLD_INIT
    /\ lastSpawnTime = 0
    /\ particles = << >>
    /\ isFrozen = FALSE
    /\ targetOffset = [x |-> 0, y |-> 0]
    /\ cameraOffset = [x |-> 0, y |-> 0]
    /\ lastVideoTime = -1
    /\ lastDetectedGesture = "None"
    /\ gestureRecognizerRef = FALSE
    /\ isCameraReady = FALSE
    /\ videoTime = 0
    /\ webcam = IF variant = "neon" THEN "loading" ELSE "none"
    /\ service = IF variant = "neon" THEN getGestureRecognizer(NoService).service
                 ELSE NoService
    /\ callers = [c \in 1..NumCallers |-> [state |-> "idle", got |-> 0, via |-> "", found |-> ""]]
    /\ isMounted = TRUE
    /\ stream = "none"
    /\ status = IF variant = "neon"
                THEN << StatusChange(FALSE, "Loading Neon AI...") >>
                ELSE << >>
    /\ pending = 1
    /\ frame = NoFrame
    /\ frames = 0
    /\ videoFrames = 0
    /\ quietFrames = 0

Init == InitRefs /\ dataArray = [i \in 1..NumBins |-> 0]

-----------------------------------------------------------------------------
(* Inputs *)

\* A spectrum that is constant over each band: bass, mid, treble magnitudes.
Spectrum(b, m, t) ==
    [i \in 1..NumBins |->
        IF i - 1 < BassEnd(NumBins) THEN b
        ELSE IF i - 1 < MidEnd(NumBins) THEN m ELSE t]

Silence == Spectrum(0, 0, 0)
Full == Spectrum(200, 200, 200)
MidTreble == Spectrum(0, 200, 200)
TrebleHit == Spectrum(25, 20, 200)
Soft == Spectrum(30, 30, 30)
Hum == Spectrum(25, 20, 15)
MidDominant == Spectrum(12, 20, 15)
TrebleDominant == Spectrum(12, 10, 15)
Flat == Spectrum(15, 15, 15)
BassMidTie == Spectrum(20, 20, 10)
Ten == Spectrum(10, 10, 10)

NoVideo == VideoInput(0, "result", "", 0, 0, 0)
PalmLeft == VideoInput(1, "result", "Open_Palm", 21, 250, 500)
NoHand == VideoInput(1, "result", "", 0, 0, 0)

MaxVideoFrames == 1
FrameMs == 16

\* The video inputs a frame may see: none that matters before the camera is
\* ready, and no more recognitions than MaxVideoFrames.
Videos(V) ==
    IF variant = "classic" \/ ~GestureGate THEN {NoVideo}
    ELSE {v \in V : Recognizes(v) => videoFrames < MaxVideoFrames}

GestureVideos == {NoVideo, PalmLeft, NoHand}
LargeBurst == [n |-> 1500, random |-> 0]
SmallBurst == [n |-> 600, random |-> 50]
\* the thinning skipped every point
NoBurst == [n |-> 0, random |-> 0]

-----------------------------------------------------------------------------
(* Spec: beat onsets. Every frame is analysed, 16 ms after the one before. *)

MaxFrames == 3

OnsetSpectra == {Silence, Full, MidTreble, TrebleHit, Soft, Hum}

AudioFrame ==
    /\ frames < MaxFrames
    /\ \E s \in OnsetSpectra, v \in Videos(GestureVideos) :
          RenderFrame(s, TRUE, FrameMs, LargeBurst, v)
    /\ UNCHANGED quietFrames

\* A frame while the audio graph is not ready.
IdleFrame ==
    /\ frames < MaxFrames
    /\ \E v \in Videos(GestureVideos) :
          RenderFrame(dataArray, FALSE, FrameMs, LargeBurst, v)
    /\ UNCHANGED quietFrames

Next == AudioFrame \/ IdleFrame
    \/ ServiceStep \/ RecognizerResolved \/ StreamResolved \/ LoadedData

Spec == Init /\ [][Next]_vars

-----------------------------------------------------------------------------
(* SpecFallback: quiet spectra whose bands stay at or under their floors,   *)
(* in frames that come exactly 600 ms or 601 ms after the one before.       *)

MaxFallbackFrames == 2

LowSpectra == {Hum, MidDominant, TrebleDominant, Flat, BassMidTie, Ten}

FallbackFrame ==
    /\ frames < MaxFallbackFrames
    /\ \E s \in LowSpectra, dt \in {FallbackMs, FallbackMs + 1},
          v \in Videos(GestureVideos) :
          RenderFrame(s, TRUE, dt, SmallBurst, v)
    /\ UNCHANGED quietFrames

NextFallback == FallbackFrame
    \/ ServiceStep \/ RecognizerResolved \/ StreamResolved \/ LoadedData

SpecFallback == Init /\ [][NextFallback]_vars

-----------------------------------------------------------------------------
(* SpecCap: large bursts that fill the collection, in frames 300 ms or      *)
(* 601 ms apart; the camera starts before the first frame.                  *)

MaxCapFrames == 4

CapFrame ==
    /\ frames < MaxCapFrames
    /\ \E s \in {Full, Hum}, dt \in {FallbackMs \div 2, FallbackMs + 1},
          burst \in {LargeBurst, NoBurst}, v \in Videos({NoVideo, PalmLeft}) :
          RenderFrame(s, TRUE, dt, burst, v)
    /\ UNCHANGED quietFrames

\* The camera comes up before the first frame or not at all.
CapStartup ==
    /\ frames = 0
    /\ (ServiceStep \/ RecognizerResolved \/ StreamResolved \/ LoadedData)

NextCap == CapFrame \/ CapStartup

SpecCap == Init /\ [][NextCap]_vars

-----------------------------------------------------------------------------
(* SpecDecay: a few frames of any of three spectra, then a tail of silent   *)
(* analysed frames; the camera comes up before the tail or not at all.      *)

MaxDecayFrames == 2
MaxQuietFrames == 22

DecayFrame ==
    /\ frames < MaxDecayFrames
    /\ quietFrames = 0
    /\ \E s \in {Silence, Full, MidTreble, TrebleHit}, v \in Videos({NoVideo, PalmLeft}) :
          RenderFrame(s, TRUE, FrameMs, SmallBurst, v)
    /\ UNCHANGED quietFrames

QuietFrame ==
    /\ quietFrames < MaxQuietFrames
    /\ \E v \in Videos({NoVideo}) : RenderFrame(Silence, TRUE, FrameMs, SmallBurst, v)
    /\ quietFrames' = quietFrames + 1

CameraStartup ==
    /\ quietFrames = 0
    /\ (ServiceStep \/ RecognizerResolved \/ StreamResolved \/ LoadedData)

NextDecay == DecayFrame \/ QuietFrame \/ CameraStartup

SpecDecay == Init /\ [][NextDecay]_vars

-----------------------------------------------------------------------------
(* SpecAnalyze: analyzeAudio applied to frequency buffers of every length   *)
(* up to MaxBins; bin i holds (slope * i + offset) mod 256.                 *)

MaxBins == 30

AnalyzeInputs ==
    { [i \in 1..length |-> (slope * (i - 1) + offset) % (MaxByte + 1)] :
        length \in 1..MaxBins, slope \in {0, 1, 85, MaxByte}, offset \in {0, 77, MaxByte} }

InitAnalyze == InitRefs /\ dataArray \in AnalyzeInputs

Analyse ==
    /\ frames = 0
    /\ frame' = [frame EXCEPT !.analysed = TRUE, !.analysis = analyzeAudio(dataArray)]
    /\ frames' = frames + 1
    /\ UNCHANGED << variant, now, dataArray, avgBass, avgMid, avgTreble,
                    bassThreshold, midThreshold, trebleThreshold, lastSpawnTime,
                    particles, isFrozen, targetOffset, cameraOffset, lastVideoTime,
                    lastDetectedGesture, gestureRecognizerRef, isCameraReady,
                    videoTime, webcam, videoFrames, quietFrames,
                    service, callers, isMounted, stream, status, pending >>

NextAnalyze == Analyse

SpecAnalyze == InitAnalyze /\ [][NextAnalyze]_vars

-----------------------------------------------------------------------------
(* SpecScenario: a frequency buffer of 100 bins; a frame hears a bass tone  *)
(* in bins 0-5, or silence, or finds the audio graph not ready.             *)

BassTone == [i \in 1..100 |-> IF i <= 6 THEN 200 ELSE 0]
Silence100 == [i \in 1..100 |-> 0]

MaxScenarioFrames == 3

InitScenario == InitRefs /\ dataArray = Silence100

ScenarioFrame ==
    /\ frames < MaxScenarioFrames
    /\ \E s \in {BassTone, Silence100}, v \in Videos(GestureVideos) :
          RenderFrame(s, TRUE, FrameMs, SmallBurst, v)
    /\ UNCHANGED quietFrames

ScenarioIdleFrame ==
    /\ frames < MaxScenarioFrames
    /\ \E v \in Videos({NoVideo}) :
          RenderFrame(dataArray, FALSE, FrameMs, SmallBurst, v)
    /\ UNCHANGED quietFrames

NextScenario ==
    \/ ScenarioFrame \/ ScenarioIdleFrame
    \/ ServiceStep \/ RecognizerResolved \/ StreamResolved \/ LoadedData

SpecScenario == InitScenario /\ [][NextScenario]_vars

-----------------------------------------------------------------------------
(* SpecLife: one or two frames that may spawn and may freeze, then a long   *)
(* run of frames under one upstream failure: the audio graph not ready, the *)
(* recognizer throwing on every video frame, or the camera delivering no    *)
(* new video frame (with silent audio, so that nothing spawns).             *)

Throwing == VideoInput(1, "throws", "", 0, 0, 0)

MaxLifePrefix == 2
MaxLifeFrames == 126

LifeFrame ==
    /\ frames < MaxLifePrefix
    /\ quietFrames = 0
    /\ \E s \in {Full, Silence}, v \in Videos(GestureVideos) :
          RenderFrame(s, TRUE, FrameMs, LargeBurst, v)
    /\ UNCHANGED quietFrames

LifeStartup ==
    /\ quietFrames = 0
    /\ (ServiceStep \/ RecognizerResolved \/ StreamResolved \/ LoadedData)

AudioDownFrame ==
    /\ quietFrames < MaxLifeFrames
    /\ quietFrames = 0 \/ ~frame.analysed
    /\ RenderFrame(dataArray, FALSE, FrameMs, LargeBurst, NoVideo)
    /\ quietFrames' = quietFrames + 1

RecognizerThrowsFrame ==
    /\ variant = "neon" /\ GestureGate
    /\ quietFrames < MaxLifeFrames
    /\ quietFrames = 0 \/ (frame.analysed /\ frame.video.outcome = "throws")
    /\ RenderFrame(Silence, TRUE, FrameMs, LargeBurst, Throwing)
    /\ quietFrames' = quietFrames + 1

CameraStalledFrame ==
    /\ quietFrames < MaxLifeFrames
    /\ quietFrames = 0 \/ (frame.analysed /\ frame.video.outcome = "result")
    /\ RenderFrame(Silence, TRUE, FrameMs, LargeBurst, NoVideo)
    /\ quietFrames' = quietFrames + 1

NextLife ==
    LifeFrame \/ LifeStartup \/ AudioDownFrame \/ RecognizerThrowsFrame \/ CameraStalledFrame

SpecLife == Init /\ [][NextLife]_vars

-----------------------------------------------------------------------------
(* SpecGesture: frames whose video shows a palm left or right, a fist, no   *)
(* hand, a palm with too few or no landmarks, or makes the recognizer       *)
(* throw; the audio is loud or silent.                                      *)

PalmRight == VideoInput(1, "result", "Open_Palm", 21, 750, 250)
Fist == VideoInput(1, "result", "Closed_Fist", 21, 400, 600)
ShortPalm == VideoInput(1, "result", "Open_Palm", 5, 0, 0)
BarePalm == VideoInput(1, "result", "Open_Palm", 0, 0, 0)

\* the onGestureChange callback throws when it is called
RudeFist == VideoInput(1, "callback throws", "Closed_Fist", 21, 400, 600)

\* landmark 9 in a corner of the picture
PalmCorner == VideoInput(1, "result", "Open_Palm", 21, 0, CoordScale)

GestureInputs ==
    {NoVideo, PalmLeft, PalmRight, PalmCorner, Fist, NoHand, ShortPalm, BarePalm,
     Throwing, RudeFist}

MaxGestureFrames == 3

GestureFrame ==
    /\ frames < MaxGestureFrames
    /\ \E s \in {Full, Silence},
          v \in (IF variant = "neon" THEN GestureInputs ELSE {NoVideo}) :
          RenderFrame(s, TRUE, FrameMs, LargeBurst, v)
    /\ UNCHANGED quietFrames

NextGesture == GestureFrame
    \/ ServiceStep \/ RecognizerResolved \/ StreamResolved \/ LoadedData

SpecGesture == Init /\ [][NextGesture]_vars

-----------------------------------------------------------------------------
(* SpecBlueprint: the blueprint of one snowflake, for sampled values of    *)
(* Math.random().                                                           *)

RibCountRandoms == {0, 25, 50, 75, 99}
LengthRandoms == {0, 17, 99}
SubRibRandoms == {0, 34, 99}

\* The spawn function of the variant designs a snowflake.
Design ==
    /\ frames = 0
    /\ \E ribs \in RibCountRandoms :
       \E length \in [1..NumRibs(ribs) -> LengthRandoms],
          subRibs \in [1..NumRibs(ribs) -> SubRibRandoms] :
          frame' = [frame EXCEPT !.blueprint =
                       Ribs([ribs |-> ribs, length |-> length, subRibs |-> subRibs])]
    /\ frames' = frames + 1
    /\ UNCHANGED << variant, now, dataArray, avgBass, avgMid, avgTreble,
                    bassThreshold, midThreshold, trebleThreshold, lastSpawnTime,
                    particles, isFrozen, targetOffset, cameraOffset, lastVideoTime,
                    lastDetectedGesture, gestureRecognizerRef, isCameraReady,
                    videoTime, webcam, videoFrames, quietFrames,
                    service, callers, isMounted, stream, status, pending >>

NextBlueprint == Design

SpecBlueprint == Init /\ [][NextBlueprint]_vars

-----------------------------------------------------------------------------
(* SpecStartup: the webcam startup with its failures, other callers of the  *)
(* gesture service and the unmounting of the component, interleaved with    *)
(* render frames.                                                           *)

MaxStartupFrames == 2

StartupFrame ==
    /\ frames < MaxStartupFrames
    /\ \E s \in {Full, Silence},
          v \in IF variant = "neon" THEN {NoVideo, PalmLeft} ELSE {NoVideo} :
          RenderFrame(s, TRUE, FrameMs, SmallBurst, v)
    /\ UNCHANGED quietFrames

NextStartup ==
    \/ StartupFrame
    \/ \E c \in 1..NumCallers : CallerCalls(c)
    \/ \E c \in 1..NumCallers : CallerSettled(c)
    \/ VisionResolved \/ CreateResolved \/ InitializationRejected
    \/ RecognizerResolved \/ RecognizerRejected
    \/ StreamResolved \/ StreamRejected
    \/ LoadedData
    \/ Teardown

SpecStartup == Init /\ [][NextStartup]_vars

-----------------------------------------------------------------------------
(* Vocabulary of the properties *)

\* The step is one call of render.
IsFrame == frames' = frames + 1

\* The frame f issued an onset spawn for the band.
Fired(f, band) ==
    \E i \in 1..Len(f.calls) : f.calls[i].type = band /\ ~f.calls[i].fallback

AnyFired(f) == \E band \in Bands : Fired(f, band)

\* The frame analysed audio and ran the detectors.
Evaluated(f) == f.analysed /\ ~f.frozen

BandEnergy(a, band) ==
    IF band = "bass" THEN a.bassEnergy
    ELSE IF band = "mid" THEN a.midEnergy ELSE a.trebleEnergy

Average(band) ==
    IF band = "bass" THEN avgBass ELSE IF band = "mid" THEN avgMid ELSE avgTreble

Threshold(band) ==
    IF band = "bass" THEN bassThreshold
    ELSE IF band = "mid" THEN midThreshold ELSE trebleThreshold

Floor(band) == IF band = "bass" THEN 25 ELSE IF band = "mid" THEN 20 ELSE 15

BoostTenths(band) == IF band = "treble" THEN 14 ELSE 15

Higher(band) ==
    IF band = "bass" THEN {} ELSE IF band = "mid" THEN {"bass"} ELSE {"bass", "mid"}

\* The band's onset condition on the state before the frame.
MeetsOnset(band, a) ==
    /\ BandEnergy(a, band) * ThresholdScale > Average(band) * Threshold(band)
    /\ BandEnergy(a, band) > Floor(band) * EnergyScale

ThresholdsAtInit == \A band \in Bands : Threshold(band) = BEAT_THRESHOLD_INIT

-----------------------------------------------------------------------------
(* Properties *)

\* C1: a render frame issues at most one spawn call, onsets and fallback
\* together; when bass meets its onset condition neither mid nor treble
\* fires, and when mid fires treble does not.
C1_OneSpawnPerFrame ==
    [][IsFrame =>
        /\ Len(frame'.calls) <= 1
        /\ (Evaluated(frame') /\ MeetsOnset("bass", frame'.analysis)
              => ~Fired(frame', "mid") /\ ~Fired(frame', "treble"))
        /\ (Fired(frame', "mid") => ~Fired(frame', "treble"))]_vars

\* Bass fired alone in a first frame whose mid and treble energies are over
\* their floors and over their (zero) running averages.
C1_Witness ==
    /\ frames = 1 /\ Fired(frame, "bass") /\ Len(frame.calls) = 1
    /\ frame.analysis.midEnergy > Floor("mid") * EnergyScale
    /\ frame.analysis.trebleEnergy > Floor("treble") * EnergyScale

FiresAsSpecified(f) ==
    \A band \in Bands :
        Fired(f, band) <=>
            /\ \A h \in Higher(band) : ~Fired(f, h)
            /\ MeetsOnset(band, f.analysis)

\* intensity = min(bandEnergy / 255, 1), to the precision of IntensityScale
IntensityAsSpecified(f) ==
    \A i \in 1..Len(f.calls) :
        ~f.calls[i].fallback =>
            LET e == BandEnergy(f.analysis, f.calls[i].type)
                c == f.calls[i].intensity
            IN  /\ c \in 0..IntensityScale
                /\ c * 255 * EnergyScale <= e * IntensityScale
                /\ c < IntensityScale => e * IntensityScale < (c + 1) * 255 * EnergyScale

\* C2 (amended): in an analysed frame of the classic variant, and in an
\* analysed frame of the neon variant that is not frozen, a band fires if
\* and only if no higher-priority band fired, its energy is strictly greater
\* than runningAverage * threshold and strictly greater than its floor; the
\* spawn carries intensity min(bandEnergy / 255, 1), which lies in [0, 1].
C2_OnsetRule ==
    [][IsFrame /\ Evaluated(frame')
         => FiresAsSpecified(frame') /\ IntensityAsSpecified(frame')]_vars

\* C2 as stated: the same of every analysed frame.
C2_Original ==
    [][IsFrame /\ frame'.analysed
         => FiresAsSpecified(frame') /\ IntensityAsSpecified(frame')]_vars

\* Mid fired in a frame whose bass energy is over the bass floor but not
\* over the adapted bass threshold.
C2_Witness ==
    /\ Evaluated(frame) /\ Fired(frame, "mid")
    /\ frame.analysis.bassEnergy > Floor("bass") * EnergyScale

\* C3 (amended): on the frame a band fires its threshold becomes
\* BEAT_THRESHOLD_INIT times its boost factor (1.5 bass and mid, 1.4
\* treble); it is never lower than before the frame, and strictly greater
\* unless it already had that value.
C3_Boost ==
    [][IsFrame =>
        \A band \in Bands :
            Fired(frame', band) =>
                /\ Threshold(band)' * 10 = BEAT_THRESHOLD_INIT * BoostTenths(band)
                /\ Threshold(band)' >= Threshold(band)
                /\ Threshold(band) * 10 # BEAT_THRESHOLD_INIT * BoostTenths(band)
                      => Threshold(band)' > Threshold(band)]_vars

\* C3 as stated: the threshold of a band that fires is multiplied by its
\* boost factor and is strictly greater after the frame than before.
C3_Original ==
    [][IsFrame =>
        \A band \in Bands :
            Fired(frame', band) =>
                /\ Threshold(band)' * 10 = Threshold(band) * BoostTenths(band)
                /\ Threshold(band)' > Threshold(band)]_vars

\* Treble fired and its threshold stands at 1.4 times the initial value.
C3_Witness ==
    /\ Fired(frame, "treble")
    /\ trebleThreshold * 10 = BEAT_THRESHOLD_INIT * 14
    /\ bassThreshold = BEAT_THRESHOLD_INIT

ThresholdFloor == \A band \in Bands : Threshold(band) >= BEAT_THRESHOLD_INIT

DecaysIn(f) ==
    \A band \in Bands :
        ~Fired(f, band) =>
            /\ Threshold(band)' = Max(BEAT_THRESHOLD_INIT, (Threshold(band) * 98) \div 100)
            /\ Threshold(band)' <= Threshold(band)

\* C4 (amended): no threshold is ever below BEAT_THRESHOLD_INIT; on every
\* analysed frame that is not a frozen frame of the neon variant, a band that
\* does not fire gets max(BEAT_THRESHOLD_INIT, old * 0.98), which is not
\* above the old value; after 21 consecutive such frames without a firing
\* every threshold is exactly BEAT_THRESHOLD_INIT.
C4_Decay ==
    /\ []ThresholdFloor
    /\ [][IsFrame /\ Evaluated(frame') => DecaysIn(frame')]_vars
    /\ [](quietFrames >= 21 /\ ~frame.frozen => ThresholdsAtInit)

\* C4 as stated: the same of every analysed frame.
C4_Original ==
    /\ []ThresholdFloor
    /\ [][IsFrame /\ frame'.analysed => DecaysIn(frame')]_vars
    /\ [](quietFrames >= 21 => ThresholdsAtInit)

\* One frame fired, 21 silent unfrozen frames followed, and the thresholds
\* are back at the initial value.
C4_Witness ==
    /\ frames = 22 /\ quietFrames = 21 /\ ~frame.frozen
    /\ lastSpawnTime > 0
    /\ ThresholdsAtInit

\* C5: as long as every analysed frame had an all-zero spectrum, no band
\* has fired, no fallback spawn was issued, and the three thresholds equal
\* BEAT_THRESHOLD_INIT.
C5_Silence ==
    ~frame.heard =>
        /\ frame.calls = << >>
        /\ frame.lastFallback = -1
        /\ lastSpawnTime = 0
        /\ particles = << >>
        /\ ThresholdsAtInit

\* Twenty or more analysed frames, all of them silent.
C5_Witness ==
    /\ ~frame.heard /\ frame.analysed /\ frames >= 20
    /\ frame.timeSinceLast > 600
    /\ ThresholdsAtInit

FallbackIntensityFixed(f) ==
    \A i \in 1..Len(f.calls) :
        f.calls[i].fallback => f.calls[i].intensity * 10 = 4 * IntensityScale

\* C6 (amended): in an analysed frame that is not a frozen frame of the
\* neon variant and in which no band fires, a fallback spawn with intensity
\* 0.4 is issued if and only if more than 600 ms have elapsed since
\* lastSpawnTime and total energy exceeds 10.
C6_Fallback ==
    [][IsFrame /\ Evaluated(frame') /\ ~AnyFired(frame') =>
        /\ Fallbacks(frame'.calls) <=>
              /\ now' - lastSpawnTime > 600
              /\ frame'.analysis.energy > 10 * EnergyScale
        /\ FallbackIntensityFixed(frame')]_vars

\* C6 as stated: in every analysed frame in which no band fires, if and
\* only if at least 600 ms have elapsed.
C6_Original ==
    [][IsFrame /\ frame'.analysed /\ ~AnyFired(frame') =>
        /\ Fallbacks(frame'.calls) <=>
              /\ now' - lastSpawnTime >= 600
              /\ frame'.analysis.energy > 10 * EnergyScale
        /\ FallbackIntensityFixed(frame')]_vars

\* A fallback spawn issued 601 ms after the spawn before it.
C6_Witness ==
    /\ Fallbacks(frame.calls) /\ frame.timeSinceLast = 601
    /\ ~AnyFired(frame)

\* C7 (amended): once a fallback spawn call that was not dropped at the
\* particle cap has been issued, no further fallback spawn call is issued
\* until more than 600 ms have passed.
C7_FallbackSpacing ==
    [][IsFrame /\ Fallbacks(frame'.calls) /\ frame.lastKept >= 0
         => now' - frame.lastKept > 600]_vars

\* C7 as stated: once a fallback spawn call has been issued, none is issued
\* until more than 600 ms have passed.
C7_Original ==
    [][IsFrame /\ Fallbacks(frame'.calls) /\ frame.lastFallback >= 0
         => now' - frame.lastFallback > 600]_vars

\* A frame within 600 ms of a fallback spawn, with total energy over 10 and
\* no band firing, issued no spawn call.
C7_Witness ==
    /\ frame.lastKept >= 0 /\ now > frame.lastKept /\ now - frame.lastKept <= 600
    /\ Evaluated(frame) /\ frame.analysis.energy > 10 * EnergyScale
    /\ frame.calls = << >>

\* C8: the band of a fallback spawn has the greatest energy of the three
\* bands in that frame, ties included.
C8_FallbackBandMaximal ==
    \A i \in 1..Len(frame.calls) :
        frame.calls[i].fallback =>
            \A band \in Bands :
                BandEnergy(frame.analysis, frame.calls[i].type)
                    >= BandEnergy(frame.analysis, band)

\* A fallback spawn in a frame whose bass and mid energies tie at the top.
C8_Witness ==
    /\ Fallbacks(frame.calls)
    /\ frame.analysis.bassEnergy = frame.analysis.midEnergy
    /\ frame.analysis.midEnergy > frame.analysis.trebleEnergy

Cap == IF variant = "neon" THEN 2000 ELSE 4000

\* The particles a spawn call of the frame adds to a collection under the cap.
Added(f) ==
    IF variant = "neon" THEN f.points ELSE Min(f.points, Cap + 1 - f.before)

RECURSIVE RangeSum(_, _, _)
RangeSum(data, lo, hi) ==
    IF hi <= lo THEN 0
    ELSE IF hi = lo + 1 THEN data[hi]
    ELSE LET half == (lo + hi) \div 2
         IN  RangeSum(data, lo, half) + RangeSum(data, half, hi)

RangeMean(data, lo, hi) ==
    IF hi <= lo THEN 0 ELSE (RangeSum(data, lo, hi) * EnergyScale) \div (hi - lo)

\* C10: for a non-empty buffer of length L with samples in 0..255 the ranges
\* [0, floor(0.06 L)), [floor(0.06 L), floor(0.40 L)), [floor(0.40 L), L)
\* hold every index exactly once and are the bands analyzeAudio uses;
\* bassEnergy, midEnergy and trebleEnergy are the means of their ranges
\* (0 for an empty range) and lie in [0, 255]; energy is the mean of the
\* whole buffer.
C10_Analysis ==
    frame.analysed =>
        LET L == Len(dataArray)
            b == (6 * L) \div 100
            m == (40 * L) \div 100
            a == frame.analysis
            ranges == { <<"bass", 0, b>>, <<"mid", b, m>>, <<"treble", m, L>> }
        IN  /\ 0 <= b /\ b <= m /\ m <= L
            /\ \A i \in 0..(L - 1) :
                  /\ Cardinality({r \in ranges : r[2] <= i /\ i < r[3]}) = 1
                  /\ \E r \in ranges : r[1] = BandOf(i, L) /\ r[2] <= i /\ i < r[3]
            /\ a.bassEnergy = RangeMean(dataArray, 0, b)
            /\ a.midEnergy = RangeMean(dataArray, b, m)
            /\ a.trebleEnergy = RangeMean(dataArray, m, L)
            /\ a.energy = RangeMean(dataArray, 0, L)
            /\ \A band \in Bands : BandEnergy(a, band) \in 0..(255 * EnergyScale)
            /\ a.energy \in 0..(255 * EnergyScale)

\* A buffer with three non-empty ranges of different means was analysed.
C10_Witness ==
    /\ frame.analysed /\ frames = 1 /\ now = StartTime
    /\ (6 * Len(dataArray)) \div 100 >= 1
    /\ frame.analysis.bassEnergy > 0
    /\ frame.analysis.bassEnergy # frame.analysis.midEnergy
    /\ frame.analysis.midEnergy # frame.analysis.trebleEnergy

\* The detector state as the refs are created: averages 0, thresholds at
\* BEAT_THRESHOLD_INIT.
InitialDetector ==
    /\ avgBass = 0 /\ avgMid = 0 /\ avgTreble = 0
    /\ ThresholdsAtInit

\* bassEnergy 200, midEnergy 0, trebleEnergy 0 and one spawn, for bass, with
\* intensity 200/255 to the precision of IntensityScale.
BassToneOutcome(f) ==
    /\ f.analysis.bassEnergy = 200 * EnergyScale
    /\ f.analysis.midEnergy = 0
    /\ f.analysis.trebleEnergy = 0
    /\ Len(f.calls) = 1
    /\ f.calls[1].type = "bass" /\ ~f.calls[1].fallback
    /\ f.calls[1].intensity * 255 <= 200 * IntensityScale
    /\ 200 * IntensityScale < (f.calls[1].intensity + 1) * 255

\* C11 (amended): from the initial detector state, one analysed frame of the
\* classic variant, or of the neon variant with the freeze flag not set, of
\* 100 bins with bins 0-5 equal to 200 and all others 0 yields bassEnergy
\* 200, midEnergy 0, trebleEnergy 0 and exactly one spawn call, for the bass
\* band, with intensity 200/255.
C11_BassTone ==
    [][IsFrame /\ InitialDetector /\ Evaluated(frame') /\ dataArray' = BassTone
         => BassToneOutcome(frame')]_vars

\* C11 as stated: the same of every analysed frame.
C11_Original ==
    [][IsFrame /\ InitialDetector /\ frame'.analysed /\ dataArray' = BassTone
         => BassToneOutcome(frame')]_vars

\* The bass tone was the first sound heard, in a frame that ran the
\* detectors, and the bass threshold was boosted.
C11_Witness ==
    /\ Evaluated(frame) /\ dataArray = BassTone /\ Len(dataArray) = 100
    /\ avgBass = 16 * EnergyScale /\ avgMid = 0 /\ avgTreble = 0
    /\ Fired(frame, "bass")
    /\ bassThreshold > BEAT_THRESHOLD_INIT

\* C12: after a spawn call returns, the collection holds at most the cap of
\* the variant (2000 neon, 4000 classic).
C12_CapHolds ==
    frame.calls # << >> => frame.spawned <= Cap

\* Every live particle lost at least its decayRate, which is at least
\* FADE_SPEED_BASE, in each physics update it went through.
DecaysAtLeastBase ==
    \A i \in 1..Len(particles) :
        /\ particles[i].decayRate >= 800
        /\ particles[i].life <= LifeScale - particles[i].steps * particles[i].decayRate

\* C13: in every frame in which physics runs each live particle's life
\* decreases by at least its decayRate, which is at least FADE_SPEED_BASE;
\* a particle spawned with life 1.0 is removed by its 125th such frame.
C13_BoundedLife ==
    /\ DecaysAtLeastBase
    /\ \A i \in 1..Len(particles) : particles[i].life > 0 /\ particles[i].steps < 125

\* Particles at the slowest decay, after 123 zero-energy frames, one
\* physics update before their removal.
C13_Witness ==
    /\ particles # << >>
    /\ particles[1].steps = 124 /\ particles[1].decayRate = 800
    /\ particles[1].life > 0 /\ particles[1].life < 800

\* The frame handled a recognition result whose top gesture is not Open_Palm
\* (or that holds no gesture).
Released(f) ==
    f.recognized /\ f.video.outcome # "throws" /\ f.video.gesture # "Open_Palm"

\* C14: in the neon variant a frame in which the freeze flag is set leaves
\* every live particle as it was (no physics update, no removal) and draws
\* every one of them; the flag, once set, stays set until a recognition
\* result with another top gesture or with no gesture is processed.
C14_FrozenParticles ==
    [][IsFrame /\ variant = "neon" =>
        /\ isFrozen' => particles' = particles /\ frame'.drawn = Count(particles)
        /\ isFrozen /\ ~Released(frame') => isFrozen']_vars

\* A frozen frame with loud audio that found particles already aged by a
\* physics update and left them alone.
C14_Witness ==
    /\ variant = "neon" /\ isFrozen /\ frame.frozen
    /\ frame.analysed /\ frame.analysis.energy > 0
    /\ particles # << >> /\ particles[1].steps = 1
    /\ frames = 3
    /\ frame.drawn = Count(particles)

\* C15: in the neon variant a frame in which the freeze flag is set when the
\* audio is handled issues no spawn call, onset or fallback, whatever the
\* audio input, and the collection does not grow.
C15_NoSpawnWhileFrozen ==
    [][IsFrame /\ variant = "neon" /\ isFrozen' =>
        /\ frame'.calls = << >>
        /\ Count(particles') <= Count(particles)]_vars

\* A frozen frame heard a spectrum that meets the bass onset condition, more
\* than 600 ms after the last spawn, and issued no spawn call.
C15_Witness ==
    /\ variant = "neon" /\ isFrozen /\ frame.frozen /\ frame.analysed
    /\ frame.analysis.bassEnergy > Floor("bass") * EnergyScale
    /\ avgBass = 0
    /\ frame.timeSinceLast > 600
    /\ frame.calls = << >>

\* The recognition step of the frame raised an exception: recognizeForVideo
\* threw, landmark 9 of an Open_Palm hand was read where the hand has fewer
\* than ten landmarks, or the gesture-change callback threw.
Raised(f) ==
    /\ f.recognized
    /\ \/ f.video.outcome = "throws"
       \/ f.video.gesture = "Open_Palm" /\ f.video.landmarks > 0 /\ f.video.landmarks < 10
       \/ f.video.outcome = "callback throws" /\ f.callback # ""

\* recognizeForVideo returned a result in the frame.
Returned(f) == f.recognized /\ f.video.outcome # "throws"

\* ((0.5 - x9) * 600, (0.5 - y9) * 600) in units of 1 / CoordScale
PalmTarget(video) == [x |-> (500 - video.x) * 600, y |-> (500 - video.y) * 600]

\* C16 (amended): after a recognition result is handled, isFrozen is true
\* exactly when its top category is Open_Palm; in that case the target
\* offset is ((0.5 - x9) * 600, (0.5 - y9) * 600) for landmark 9 of the first
\* hand if that hand has a landmark 9, and keeps its previous value if it
\* has none; for any other top category or an empty gesture list isFrozen
\* is false and the target offset (0, 0).
C16_GestureResult ==
    [][IsFrame /\ Returned(frame') =>
        /\ isFrozen' <=> frame'.video.gesture = "Open_Palm"
        /\ frame'.video.gesture = "Open_Palm" /\ frame'.video.landmarks > 9
              => targetOffset' = PalmTarget(frame'.video)
        /\ frame'.video.gesture = "Open_Palm" /\ frame'.video.landmarks <= 9
              => targetOffset' = targetOffset
        /\ frame'.video.gesture # "Open_Palm"
              => targetOffset' = [x |-> 0, y |-> 0]]_vars

\* C16 as stated: every handled Open_Palm result has a landmark 9 of the
\* first hand, from which the target offset is computed.
C16_Original ==
    [][IsFrame /\ Returned(frame') =>
        /\ isFrozen' <=> frame'.video.gesture = "Open_Palm"
        /\ frame'.video.gesture = "Open_Palm"
              => /\ frame'.video.landmarks > 9
                 /\ targetOffset' = PalmTarget(frame'.video)
        /\ frame'.video.gesture # "Open_Palm"
              => targetOffset' = [x |-> 0, y |-> 0]]_vars

\* A palm on the right after a palm on the left: frozen, with the target
\* offset of the second palm.
C16_Witness ==
    /\ Returned(frame) /\ frame.video = PalmRight
    /\ isFrozen
    /\ targetOffset = [x |-> -150000, y |-> 150000]
    /\ frame.callback = ""

\* C17: when the recognition step of a frame raises an exception, isFrozen,
\* the target offset and the last gesture label are after the frame what
\* they were before it.
C17_ExceptionKeepsState ==
    [][IsFrame /\ Raised(frame') =>
        /\ isFrozen' = isFrozen
        /\ targetOffset' = targetOffset
        /\ lastDetectedGesture' = lastDetectedGesture]_vars

\* C18: the gesture-change callback is called in a frame exactly when the
\* frame is processed (its recognition step reaches the comparison of the
\* label) and its top label differs from the label of the previously
\* processed frame, 'None' before the first; it is called with that label.
C18_EdgeTriggered ==
    [][IsFrame =>
        /\ frame'.callback # "" <=> frame'.compared /\ frame'.label # frame.label
        /\ frame'.callback # "" => frame'.callback = frame'.label]_vars

\* A second processed frame with the label Open_Palm: no callback.
C18_Witness ==
    /\ frame.compared /\ frame.video.gesture = "Open_Palm"
    /\ videoFrames >= 2 /\ frame.label = "Open_Palm" /\ frame.callback = ""
    /\ lastDetectedGesture = "Open_Palm"

\* The beat-detector state: running averages and thresholds.
Detector ==
    [avg |-> [band \in Bands |-> Average(band)],
     threshold |-> [band \in Bands |-> Threshold(band)]]

\* The detector state after an analysed, evaluated frame of zero energies.
AfterZeroFrame ==
    [avg |-> [band \in Bands |-> (Average(band) * 92) \div 100],
     threshold |-> [band \in Bands |->
                      Max(BEAT_THRESHOLD_INIT,
                          (Threshold(band) * BEAT_DECAY_RATE) \div RateScale)]]

\* Every particle one base decayRate older, those at or under 0 removed.
BaseAged(ps) ==
    LET aged == [i \in 1..Len(ps) |->
                   [ps[i] EXCEPT !.life = @ - ps[i].decayRate, !.steps = @ + 1]]
        Lives(p) == p.life > 0
    IN  SelectSeq(aged, Lives)

\* C19 (amended): a frame in which the audio graph is not ready issues no
\* spawn and leaves the beat-detector state as it is; its particles decay
\* at exactly their base decayRate, unless the freeze flag of the neon
\* variant is set, when they do not change.
C19_AudioNotReady ==
    [][IsFrame /\ ~frame'.analysed =>
        /\ frame'.calls = << >> /\ frame'.spawned = frame'.before
        /\ lastSpawnTime' = lastSpawnTime
        /\ Detector' = Detector
        /\ particles' = IF frame'.frozen THEN particles ELSE BaseAged(particles)]_vars

\* C19 as stated: no spawn, base decay, and the detector state of an
\* analysed all-zero frame.
C19_Original ==
    [][IsFrame /\ ~frame'.analysed =>
        /\ frame'.calls = << >>
        /\ particles' = BaseAged(particles)
        /\ Detector' = AfterZeroFrame]_vars

\* A frame without audio, with particles to decay and a detector that has
\* heard a beat.
C19_Witness ==
    /\ ~frame.analysed /\ frames > 1 /\ ~frame.frozen
    /\ particles # << >> /\ avgBass > 0 /\ bassThreshold > BEAT_THRESHOLD_INIT
    /\ \A i \in 1..Len(particles) : particles[i].steps >= 2

\* Frames enough for every particle to decay to nothing at its base rate.
FullLife == LifeScale \div FADE_SPEED_BASE

\* C20: once the audio graph stays not ready, the recognizer throws on every
\* frame or the camera delivers no new video frame, no spawn occurs and the
\* particles keep decaying: after the frames of a full particle life the
\* collection is empty.
C20_DecaysToEmpty ==
    /\ quietFrames > 0 => frame.calls = << >>
    /\ quietFrames >= FullLife => particles = << >>

\* Some call of getGestureRecognizer has been made.
Called == variant = "neon" \/ \E c \in 1..NumCallers : callers[c].state # "idle"

\* C21: the calls of getGestureRecognizer start exactly one initialisation
\* with at most one createFromOptions call, however they interleave with
\* its steps; every call that resolves, before or after the initialisation
\* resolved, resolves to the one instance, and so does startWebcam.
C21_OneInitialisation ==
    /\ service.starts = (IF Called THEN 1 ELSE 0)
    /\ service.creates <= 1
    /\ service.instance # 0 => service.instance = 1 /\ service.creates = 1
    /\ \A c \in 1..NumCallers :
          callers[c].state = "resolved" => callers[c].got = 1 /\ service.instance = 1
    /\ gestureRecognizerRef => service.instance = 1

\* Two callers and startWebcam hold the instance, one caller through the
\* promise and one through the cached instance.
C21_Witness ==
    /\ variant = "neon" /\ gestureRecognizerRef
    /\ \A c \in 1..NumCallers : callers[c].state = "resolved"
    /\ \E c \in 1..NumCallers : callers[c].via = "promise"
    /\ \E c \in 1..NumCallers : callers[c].via = "instance"
    /\ service.starts = 1 /\ service.creates = 1

\* C22 (amended): once the component is unmounted, wherever in the webcam
\* startup, no acquired track is left running and the recognizer held by
\* the component (gestureRecognizerRef) is cleared, for good; the instance
\* cached by the gesture service is kept.
C22_Teardown ==
    /\ [](~isMounted => stream # "live" /\ ~gestureRecognizerRef)
    /\ [][~isMounted => ~isMounted']_vars
    /\ [][service.instance # 0 => service'.instance = service.instance]_vars

\* C22 as stated: unmounted, no track is left running and neither the
\* component nor the gesture service holds a recognizer instance.
C22_Original ==
    ~isMounted => stream # "live" /\ ~gestureRecognizerRef /\ service.instance = 0

\* Unmounted while getUserMedia was pending: the stream that arrived was
\* stopped, the service holds its instance.
C22_Witness ==
    /\ ~isMounted /\ webcam = "closed" /\ stream = "stopped" /\ ~isCameraReady
    /\ ~gestureRecognizerRef /\ service.instance = 1

\* The status callbacks made so far that report the text.
Reports(text) == {i \in 1..Len(status) : status[i].text = text}

Designed == frame.blueprint

\* What every rib of a blueprint satisfies besides its position.
RibsWellFormed ==
    /\ Len(Designed) \in 2..5
    /\ \A i, j \in 1..Len(Designed) : i < j => Designed[i].pos < Designed[j].pos
    /\ \A i \in 1..Len(Designed) :
          /\ Designed[i].length > 0
          /\ Designed[i].length * 10
                <= 6 * (RibScale - Designed[i].pos) * (LengthScale \div RibScale)
          /\ Designed[i].subRibs \in 0..2
          /\ Designed[i].subRibs > 0 => 10 * Designed[i].length > 3 * LengthScale

\* C24 (amended): every produced blueprint has between 2 and 5 ribs whose
\* pos values are strictly increasing and lie in [0.2, 0.8), the first at
\* exactly 0.2; each rib's length is positive and at most 0.6 * (1 - pos),
\* and a rib carries 1 or 2 sub-ribs only if its length exceeds 0.3.
C24_Blueprint ==
    frames > 0 =>
        /\ RibsWellFormed
        /\ Designed[1].pos * 10 = 2 * RibScale
        /\ \A i \in 1..Len(Designed) :
              Designed[i].pos * 10 >= 2 * RibScale /\ Designed[i].pos * 10 < 8 * RibScale

\* C24 as stated: every pos lies strictly inside (0.2, 0.8).
C24_Original ==
    frames > 0 =>
        /\ RibsWellFormed
        /\ \A i \in 1..Len(Designed) :
              Designed[i].pos * 10 > 2 * RibScale /\ Designed[i].pos * 10 < 8 * RibScale

\* A blueprint of five ribs, the first with two sub-ribs, the last with none.
C24_Witness ==
    /\ frames > 0 /\ Len(Designed) = 5
    /\ Designed[1].subRibs = 2 /\ Designed[5].subRibs = 0
    /\ Designed[5].pos * 100 = 68 * RibScale

\* 0.92 * old + 0.08 * bandEnergy for every band.
Averaged(f) ==
    \A band \in Bands :
        Average(band)' = (Average(band) * 92 + BandEnergy(f.analysis, band) * 8) \div 100

AveragesKept == \A band \in Bands : Average(band)' = Average(band)

AveragesInRange ==
    \A band \in Bands : Average(band) >= 0 /\ Average(band) <= MaxByte * EnergyScale

\* C25 (amended): on every frame in which the beat detector runs (audio
\* graph ready and, in the neon variant, freeze flag not set), whether or
\* not a band fired or a fallback spawned, each band's running average
\* becomes 0.92 * old + 0.08 * bandEnergy; on every other frame it keeps
\* its value; it stays within [0, 255].
C25_RunningAverage ==
    /\ [][IsFrame => IF Evaluated(frame') THEN Averaged(frame') ELSE AveragesKept]_vars
    /\ []AveragesInRange

\* C25 as stated, read for the frames whose audio is analysed: the running
\* averages are replaced on every one of them.
C25_Original ==
    /\ [][IsFrame /\ frame'.analysed => Averaged(frame')]_vars
    /\ []AveragesInRange

\* A second frame that spawned by an onset and moved the bass average.
C25_Witness ==
    /\ frames >= 2 /\ Evaluated(frame) /\ Fired(frame, "bass")
    /\ avgBass > (8 * frame.analysis.bassEnergy) \div 100
    /\ avgBass < frame.analysis.bassEnergy

\* One physics update of a particle in the frame f.
Updated(p, f) ==
    [p EXCEPT !.life = @ - DynamicDecay(p.decayRate, f.analysis.energy),
              !.steps = @ + 1]

\* The particles of ps with one physics update each, in their order, less
\* those whose life is not above 0.
UpdatedOnce(ps, f) ==
    LET Lives(p) == p.life > 0
    IN  SelectSeq([i \in 1..Len(ps) |-> Updated(ps[i], f)], Lives)

\* C26: a render pass in which physics runs gives every particle that is in
\* the collection when the pass starts exactly one physics update and one
\* life check, whichever particles are removed in the pass; after every
\* frame every particle left has life > 0.
C26_SinglePass ==
    /\ [][IsFrame /\ ~frame'.frozen =>
            particles' = UpdatedOnce(frame'.entering, frame')]_vars
    /\ [](\A i \in 1..Len(particles) : particles[i].life > 0)

\* The older of two snowflakes was removed in the pass, the younger one
\* updated and kept.
C26_Witness ==
    /\ Len(frame.entering) = 2 /\ Len(particles) = 1 /\ ~frame.frozen
    /\ particles[1].steps = frame.entering[2].steps + 1

\* isFrozen, the target offset and the last label.
Gesture == << isFrozen, targetOffset, lastDetectedGesture >>

\* C27: the recognizer is called at most once per video timestamp: a frame
\* calls it only for a timestamp it was never called for, with or without
\* an exception, and a frame whose video currentTime is the timestamp
\* processed last calls no recognizer and changes no gesture state.
C27_OncePerTimestamp ==
    /\ [][IsFrame /\ frame'.recognized => videoTime' \notin frame.timestamps]_vars
    /\ [][IsFrame /\ videoTime' = lastVideoTime =>
            ~frame'.recognized /\ Gesture' = Gesture]_vars
    /\ [](Cardinality(frame.timestamps) = videoFrames)

\* The render frame after a frozen one found no new video frame.
C27_Witness ==
    /\ GestureGate /\ frame.video.advance = 0 /\ ~frame.recognized
    /\ videoTime \in frame.timestamps /\ isFrozen /\ frames > 1

\* C28: while the component is mounted exactly one render call is due, the
\* first one or the frame callback requested by the frame before; a frame
\* runs as a whole, its request for the next frame included, and no
\* unmounting falls inside it; once the unmounting has cancelled the
\* pending callback no render frame runs.
C28_FrameCallbacks ==
    /\ [](pending = (IF isMounted THEN 1 ELSE 0))
    /\ [][IsFrame => isMounted /\ isMounted' /\ pending' = 1]_vars
    /\ [][~isMounted => ~IsFrame /\ ~isMounted']_vars

\* Unmounted after the first frame: the second frame never runs.
C28_Witness ==
    /\ ~isMounted /\ pending = 0 /\ frames = 1 /\ frames < MaxStartupFrames
    /\ frame.analysed

\* A tenth of the distance d, towards zero.
Tenth(d) == IF d >= 0 THEN d \div 10 ELSE -((-d) \div 10)

\* The offset moved a tenth of the way from where it was to the target.
MovedTenth(old, new, target) ==
    /\ new - old = Tenth(target - old)
    /\ (old <= target => old <= new /\ new <= target)
    /\ (old >= target => old >= new /\ new >= target)

\* 300 pixels, in 1 / CoordScale pixels
MaxOffset == 300 * CoordScale

\* C29: on every render frame of the neon variant, frozen or not, each
\* coordinate of the camera offset moves by a tenth of its distance to the
\* target offset of the frame; it never passes the target and stays within
\* [-300, 300].
C29_CameraOffset ==
    /\ [][IsFrame /\ variant = "neon" =>
            /\ MovedTenth(cameraOffset.x, cameraOffset'.x, targetOffset'.x)
            /\ MovedTenth(cameraOffset.y, cameraOffset'.y, targetOffset'.y)]_vars
    /\ [](/\ cameraOffset.x >= -MaxOffset /\ cameraOffset.x <= MaxOffset
          /\ cameraOffset.y >= -MaxOffset /\ cameraOffset.y <= MaxOffset)

\* Two frozen frames towards the corner target (300, -300): 30 and then 57
\* pixels of the way.
C29_Witness ==
    /\ isFrozen /\ frame.frozen
    /\ targetOffset = [x |-> MaxOffset, y |-> -MaxOffset]
    /\ cameraOffset = [x |-> 57 * CoordScale, y |-> -57 * CoordScale]

\* The recognizer promise has resolved and the camera has signalled loaded
\* data.
Initialised == webcam = "ready"

\* C30: until the recognizer promise has resolved and the camera has
\* signalled loaded data no frame calls the recognizer, whatever video it
\* is offered and however the frames interleave with the startup steps;
\* isFrozen stays false, the target offset (0, 0) and the label 'None'.
C30_ReadinessGate ==
    /\ [][IsFrame /\ ~Initialised' => ~frame'.recognized]_vars
    /\ [](~Initialised =>
            /\ ~isFrozen /\ targetOffset = [x |-> 0, y |-> 0]
            /\ lastDetectedGesture = "None" /\ lastVideoTime = -1
            /\ videoFrames = 0)

\* Every frame was offered an open palm while the stream was attached but
\* had not loaded: none was recognised.
C30_Witness ==
    /\ webcam = "attached" /\ gestureRecognizerRef /\ ~isCameraReady
    /\ frames = MaxGestureFrames /\ frame.video = PalmLeft /\ videoTime = frames
    /\ ~frame.recognized /\ ~isFrozen

\* The threshold of the band stands at BEAT_THRESHOLD_INIT times its boost
\* factor.
AtCeiling(band) == Threshold(band) * 10 = BEAT_THRESHOLD_INIT * BoostTenths(band)

\* C31: no threshold ever exceeds BEAT_THRESHOLD_INIT times the boost
\* factor of its band (1.5 bass and mid, 1.4 treble); a band that fires
\* while its threshold stands at that value leaves it there.
C31_ThresholdCeiling ==
    /\ [](\A band \in Bands :
            Threshold(band) * 10 <= BEAT_THRESHOLD_INIT * BoostTenths(band))
    /\ [][IsFrame =>
            \A band \in Bands :
                Fired(frame', band) /\ AtCeiling(band) => AtCeiling(band)']_vars

\* Bass fired in two frames running: the average holds both energies and
\* the threshold stands at 1.5 times the initial value.
C31_Witness ==
    /\ Fired(frame, "bass") /\ frames >= 2
    /\ frame.analysis.bassEnergy > 0
    /\ avgBass = (((8 * frame.analysis.bassEnergy) \div 100) * 92
                    + 8 * frame.analysis.bassEnergy) \div 100
    /\ AtCeiling("bass")

\* C32: a frame of the neon variant rendered with the freeze flag set leaves
\* the three running averages, the three thresholds and lastSpawnTime as
\* they were, although its audio is analysed.
C32_FrozenDetector ==
    [][IsFrame /\ variant = "neon" /\ frame'.frozen /\ frame'.analysed =>
        /\ Detector' = Detector
        /\ lastSpawnTime' = lastSpawnTime]_vars

\* A frozen frame analysed a spectrum that meets the bass onset condition
\* against an average and a threshold left by an earlier beat, and the
\* spawn time is still the one of that beat.
C32_Witness ==
    /\ variant = "neon" /\ frame.frozen /\ frame.analysed
    /\ avgBass > 0 /\ AtCeiling("bass")
    /\ frame.analysis.bassEnergy * ThresholdScale > avgBass * bassThreshold
    /\ frame.analysis.bassEnergy > Floor("bass") * EnergyScale
    /\ lastSpawnTime > StartTime /\ lastSpawnTime < now

\* The frame issued a spawn call while the collection held more particles
\* than the cap of the variant.
DroppedSpawn == IsFrame /\ frame'.calls # << >> /\ Count(particles) > Cap

\* C33: a spawn attempted while the collection is above the hard cap adds no
\* particle and leaves lastSpawnTime and the threshold of the band that
\* fired as they were before the attempt, in both variants.
C33_DroppedSpawnNoOp ==
    [][DroppedSpawn =>
        /\ frame'.spawned = frame'.before
        /\ lastSpawnTime' = lastSpawnTime
        /\ \A band \in Bands :
              Fired(frame', band) => Threshold(band)' = Threshold(band)]_vars

\* C34: in every reachable state of the neon variant in which isFrozen is
\* false the target offset is (0, 0): the target is away from the origin
\* only while the view is frozen.
C34_TargetOnlyWhileFrozen ==
    variant = "neon" =>
        /\ ~isFrozen => targetOffset = [x |-> 0, y |-> 0]
        /\ (targetOffset.x # 0 \/ targetOffset.y # 0) => isFrozen

\* A recognised frame released a freeze whose target was away from the
\* origin: the camera is still off centre and the target is back at (0, 0).
C34_Witness ==
    /\ variant = "neon" /\ ~isFrozen /\ frame.recognized
    /\ frame.video.gesture # "Open_Palm"
    /\ cameraOffset.x # 0
    /\ targetOffset = [x |-> 0, y |-> 0]

\* The initialisation started by getGestureRecognizer has failed.
Failed == service.promise = "rejected"

\* C35: once the initialisation has failed the failure stays: the cached
\* instance is null, one initialisation was started and no other ever is, a
\* call of getGestureRecognizer changes nothing and returns the rejected
\* promise, and whoever calls afterwards is rejected, never resolved.
C35_PermanentFailure ==
    /\ [](Failed =>
            /\ service.instance = 0 /\ service.starts = 1
            /\ getGestureRecognizer(service) = [service |-> service, returns |-> "promise"]
            /\ \A c \in 1..NumCallers : callers[c].state # "resolved"
            /\ ~gestureRecognizerRef)
    /\ [][Failed =>
            /\ service' = service
            /\ \A c \in 1..NumCallers :
                  /\ callers[c].state = "idle" /\ callers'[c] # callers[c] =>
                        callers'[c] = [state |-> "waiting", got |-> 0,
                                       via |-> "promise", found |-> "rejected"]
                  /\ callers[c].state = "waiting" /\ callers'[c] # callers[c] =>
                        callers'[c] = [callers[c] EXCEPT !.state = "rejected"]]_vars

\* The initialisation failed; a caller that called after the failure got
\* the promise and was rejected, as was one that had called before it, and
\* still only one initialisation was ever started.
C35_Witness ==
    /\ Failed /\ service.starts = 1 /\ service.instance = 0
    /\ \E c \in 1..NumCallers :
          callers[c].found = "rejected" /\ callers[c].state = "rejected"
    /\ \E c \in 1..NumCallers :
          callers[c].found \in {"vision", "creating"} /\ callers[c].state = "rejected"

====
